---- MODULE Spec2Model ----
(***************************************************************************)
(* Recipe availability analysis of cmbm-admin-tools                        *)
(* (src/src/analyze-recipes.js): analyzeRecipeAvailability builds one      *)
(* report per recipe, generateReport filters the reports into three        *)
(* summary lists and sorts a copy of them by makeability.                  *)
(*                                                                         *)
(* A JavaScript name value is a record: type "string" with its characters  *)
(* as a sequence of one-character strings, or type "undefined".            *)
(* A Number that is not an integer is an IEEE-754 double: a record with a  *)
(* binary exponent and a 53-bit significand.                               *)
(*                                                                         *)
(* Site admin management (src/src/manage-site-admin.js): the commands      *)
(* create, update-password and reset-password, each run as a process of    *)
(* its own against the users collection of one database; processes         *)
(* interleave at their awaits.                                             *)
(***************************************************************************)
EXTENDS Integers, Sequences, FiniteSets, TLC

VARIABLES inventory, recipes, analysis, fullyMakeable, partiallyMakeable,
          notMakeable, sortedByMakeability, pc,
          db, procs, clock

vars == <<inventory, recipes, analysis, fullyMakeable, partiallyMakeable,
          notMakeable, sortedByMakeability, pc, db, procs, clock>>

(* The state of generateReport and the state of the admin commands.        *)
reportVars == <<inventory, recipes, analysis, fullyMakeable, partiallyMakeable,
                notMakeable, sortedByMakeability, pc>>

adminVars == <<db, procs, clock>>

-----------------------------------------------------------------------------
(* Bounds of the checked input families.                                   *)

MaxInventory == 1
MaxIngredients == 2
MaxRankRecipes == 3
MaxRankIngredients == 3
MaxLargeIngredients == 200
MaxProcs == 2

-----------------------------------------------------------------------------
(* JavaScript values of the name fields.                                   *)

WhiteSpace == {" "}

Undefined == [type |-> "undefined", chars |-> <<>>]

Str(s) == [type |-> "string", chars |-> s]

RECURSIVE SeqsUpTo(_, _)
SeqsUpTo(S, n) ==
  IF n = 0 THEN {<<>>}
  ELSE LET shorter == SeqsUpTo(S, n - 1)
       IN  shorter \cup {Append(s, c) : s \in shorter, c \in S}

(* The names of the inputs: undefined, "", " ", "a", "A", " A", "a ",      *)
(* "aa" and "a a".                                                         *)
Names ==
  {Undefined, Str(<<>>), Str(<<" ">>), Str(<<"a">>), Str(<<"A">>),
   Str(<<" ", "A">>), Str(<<"a", " ">>), Str(<<"a", "a">>),
   Str(<<"a", " ", "a">>)}

(* String.prototype.toLowerCase, character by character.                   *)
LowerChar(c) == IF c = "A" THEN "a" ELSE c

ToLowerCase(s) == [i \in 1..Len(s) |-> LowerChar(s[i])]

(* String.prototype.trim: drop leading, then trailing white space.         *)
RECURSIVE TrimStart(_)
TrimStart(s) ==
  IF s # <<>> /\ Head(s) \in WhiteSpace THEN TrimStart(Tail(s)) ELSE s

RECURSIVE TrimEnd(_)
TrimEnd(s) ==
  IF s # <<>> /\ s[Len(s)] \in WhiteSpace
  THEN TrimEnd(SubSeq(s, 1, Len(s) - 1))
  ELSE s

Trim(s) == TrimEnd(TrimStart(s))

(* The normalisation with the trim left out.                               *)
NormalizeNoTrim(name) ==
  IF name.type = "undefined" THEN Undefined
  ELSE Str(ToLowerCase(name.chars))

(* name?.toLowerCase().trim(): the optional chain yields undefined for an  *)
(* undefined name and the lower-cased, trimmed string otherwise.           *)
Normalize(name) ==
  IF name.type = "undefined" THEN Undefined
  ELSE Str(Trim(ToLowerCase(name.chars)))

(* The === of the find callback: same type and same characters.            *)
StrictEquals(x, y) == x.type = y.type /\ x.chars = y.chars

(* inventory.find(...): index of the first matching item, 0 for undefined. *)
RECURSIVE FindFrom(_, _, _)
FindFrom(inv, ingredient, j) ==
  IF j > Len(inv) THEN 0
  ELSE IF StrictEquals(Normalize(inv[j].name), Normalize(ingredient.name))
       THEN j
       ELSE FindFrom(inv, ingredient, j + 1)

InventoryFind(inv, ingredient) == FindFrom(inv, ingredient, 1)

-----------------------------------------------------------------------------
(* IEEE-754 double arithmetic of line 110, for the operands it meets: a    *)
(* quotient of two small non-negative integers, a product with a small     *)
(* integer, and Math.round of a small non-negative value.  A double is     *)
(* 2^exp * (limbs / 2^52): its 53-bit significand is the leading bit       *)
(* followed by four limbs of 13 bits.                                      *)

LimbBits == 13

LimbCount == 4

RECURSIVE Pow2(_)
Pow2(n) == IF n = 0 THEN 1 ELSE 2 * Pow2(n - 1)

LimbBase == Pow2(LimbBits)

One == <<1>> \o [i \in 1..LimbCount |-> 0]

FZero == [zero |-> TRUE, exp |-> 0, limbs |-> [i \in 1..(LimbCount + 1) |-> 0]]

(* limbs + 1 in the last place; the leading limb becomes 2 when the carry  *)
(* runs through every limb.                                                *)
RECURSIVE IncFrom(_, _)
IncFrom(limbs, i) ==
  IF i = 1 \/ limbs[i] + 1 < LimbBase
  THEN [limbs EXCEPT ![i] = limbs[i] + 1]
  ELSE IncFrom([limbs EXCEPT ![i] = 0], i - 1)

(* Round-to-nearest, ties-to-even: rest / unit is the discarded fraction   *)
(* of the last place of limbs.                                             *)
RoundNearestEven(exp, limbs, rest, unit) ==
  LET up  == \/ 2 * rest > unit
             \/ 2 * rest = unit /\ limbs[LimbCount + 1] % 2 = 1
      inc == IncFrom(limbs, LimbCount + 1)
  IN  IF ~up THEN [zero |-> FALSE, exp |-> exp, limbs |-> limbs]
      ELSE IF inc[1] = 1 THEN [zero |-> FALSE, exp |-> exp, limbs |-> inc]
      ELSE [zero |-> FALSE, exp |-> exp + 1, limbs |-> One]

(* Long division: the next n quotient limbs of r / t, and the remainder.   *)
RECURSIVE DivLoop(_, _, _, _)
DivLoop(r, t, n, acc) ==
  IF n = 0 THEN [limbs |-> acc, rem |-> r]
  ELSE DivLoop((r * LimbBase) % t, t, n - 1,
               Append(acc, (r * LimbBase) \div t))

(* Least k with a * 2^k >= t, for 0 < a <= t.                              *)
RECURSIVE ShiftTo(_, _, _)
ShiftTo(a, t, k) == IF a >= t THEN k ELSE ShiftTo(2 * a, t, k + 1)

(* a / t for integers 0 <= a <= t, 0 < t < 2^17.                           *)
FDiv(a, t) ==
  IF a = 0 THEN FZero
  ELSE LET k == ShiftTo(a, t, 0)
           q == DivLoop(a * Pow2(k) - t, t, LimbCount, <<1>>)
       IN  RoundNearestEven(-k, q.limbs, q.rem, t)

(* limbs * c, exactly, from the last limb up; the leading limb of the      *)
(* result keeps the whole of the last carry.                               *)
RECURSIVE MulLoop(_, _, _, _, _)
MulLoop(limbs, c, i, carry, acc) ==
  IF i = 1 THEN <<limbs[1] * c + carry>> \o acc
  ELSE MulLoop(limbs, c, i - 1, (limbs[i] * c + carry) \div LimbBase,
               <<(limbs[i] * c + carry) % LimbBase>> \o acc)

(* Greatest s with 2^s <= n, for n >= 1.                                   *)
RECURSIVE Log2(_)
Log2(n) == IF n < 2 THEN 0 ELSE 1 + Log2(n \div 2)

(* x * c for an integer 0 < c < 2^13.                                      *)
FMul(x, c) ==
  IF x.zero THEN FZero
  ELSE LET p == MulLoop(x.limbs, c, LimbCount + 1, 0, <<>>)
           s == Log2(p[1])
           shifted == [i \in 1..(LimbCount + 1) |->
                         IF i = 1 THEN p[1] \div Pow2(s)
                         ELSE ((p[i - 1] % Pow2(s)) * Pow2(LimbBits - s))
                                + (p[i] \div Pow2(s))]
       IN  RoundNearestEven(x.exp + s, shifted, p[LimbCount + 1] % Pow2(s), Pow2(s))

(* Math.floor of a non-negative double below 2^12.                         *)
MathFloor(x) ==
  IF x.zero \/ x.exp < 0 THEN 0
  ELSE (x.limbs[1] * Pow2(x.exp)) + (x.limbs[2] \div Pow2(LimbBits - x.exp))

(* Math.ceil instead of Math.round.                                        *)
MathCeil(x) ==
  IF x.zero THEN 0
  ELSE IF x.exp < 0 THEN 1
  ELSE MathFloor(x) +
         (IF \/ x.limbs[2] % Pow2(LimbBits - x.exp) # 0
             \/ \E i \in 3..(LimbCount + 1) : x.limbs[i] # 0
          THEN 1 ELSE 0)

(* Math.floor instead of Math.round.                                       *)
MathRoundDown(x) == MathFloor(x)

(* Math.round of a non-negative double below 2^12: the nearest integer,    *)
(* a value half way between two integers going to the larger one.          *)
MathRound(x) ==
  IF x.zero \/ x.exp < -1 THEN 0
  ELSE IF x.exp = -1 THEN 1
  ELSE MathFloor(x) + ((x.limbs[2] \div Pow2(LimbBits - 1 - x.exp)) % 2)

-----------------------------------------------------------------------------
(* analyzeRecipeAvailability, the callback of recipes.map.                 *)

(* Lines 108-111.                                                          *)
PercentageAvailable(totalIngredients, missingCount) ==
  IF totalIngredients > 0
  THEN MathRound(FMul(FDiv(totalIngredients - missingCount, totalIngredients), 100))
  ELSE 0

(* Lines 113-120.                                                          *)
Availability(totalIngredients, missingCount) ==
  IF missingCount = 0 THEN "full"
  ELSE IF missingCount < totalIngredients THEN "partial"
  ELSE "none"

(* The forEach callback with the else dropped: a stocked ingredient is     *)
(* pushed onto both lists.                                                 *)
VisitIngredientNoElse(loop, ingredients, inv) ==
  LET ingredient == ingredients[loop.next]
  IN  IF InventoryFind(inv, ingredient) # 0
      THEN [next |-> loop.next + 1,
            missingIngredients |-> Append(loop.missingIngredients, ingredient.name),
            availableIngredients |-> Append(loop.availableIngredients, ingredient.name)]
      ELSE [next |-> loop.next + 1,
            missingIngredients |-> Append(loop.missingIngredients, ingredient.name),
            availableIngredients |-> loop.availableIngredients]

(* The forEach callback with unshift in place of push.                     *)
VisitIngredientUnshift(loop, ingredients, inv) ==
  LET ingredient == ingredients[loop.next]
  IN  IF InventoryFind(inv, ingredient) # 0
      THEN [next |-> loop.next + 1,
            missingIngredients |-> loop.missingIngredients,
            availableIngredients |-> <<ingredient.name>> \o loop.availableIngredients]
      ELSE [next |-> loop.next + 1,
            missingIngredients |-> <<ingredient.name>> \o loop.missingIngredients,
            availableIngredients |-> loop.availableIngredients]

(* Lines 94-104, one call of the forEach callback: the ingredient at the   *)
(* loop's position is pushed onto the available or onto the missing list.  *)
VisitIngredient(loop, ingredients, inv) ==
  LET ingredient == ingredients[loop.next]
  IN  IF InventoryFind(inv, ingredient) # 0
      THEN [next |-> loop.next + 1,
            missingIngredients |-> loop.missingIngredients,
            availableIngredients |-> Append(loop.availableIngredients, ingredient.name)]
      ELSE [next |-> loop.next + 1,
            missingIngredients |-> Append(loop.missingIngredients, ingredient.name),
            availableIngredients |-> loop.availableIngredients]

(* recipe.ingredients.forEach from the loop's position through ingredient  *)
(* hi, in order: the loop through the middle of that range, then the loop  *)
(* from where it stopped through hi.                                       *)
RECURSIVE ForEachIngredient(_, _, _, _)
ForEachIngredient(ingredients, inv, loop, hi) ==
  IF loop.next > hi THEN loop
  ELSE IF loop.next = hi THEN VisitIngredient(loop, ingredients, inv)
  ELSE ForEachIngredient(ingredients, inv,
         ForEachIngredient(ingredients, inv, loop, (loop.next + hi) \div 2), hi)

(* Lines 90-131.                                                           *)
BuildReport(recipe, inv) ==
  LET lists == ForEachIngredient(recipe.ingredients, inv,
                 [next |-> 1, missingIngredients |-> <<>>, availableIngredients |-> <<>>],
                 Len(recipe.ingredients))
      totalIngredients == Len(recipe.ingredients)
      missingCount == Len(lists.missingIngredients)
  IN  [recipe |-> recipe,
       availability |-> Availability(totalIngredients, missingCount),
       missingIngredients |-> lists.missingIngredients,
       availableIngredients |-> lists.availableIngredients,
       missingCount |-> missingCount,
       totalIngredients |-> totalIngredients,
       percentageAvailable |-> PercentageAvailable(totalIngredients, missingCount)]

-----------------------------------------------------------------------------
(* generateReport: the filters and the sort.                               *)

(* The filter with 'partial' read as "something is missing".               *)
FilterByAvailabilityLoose(reports, value) ==
  SelectSeq(reports, LAMBDA a :
    \/ a.availability = value
    \/ value = "partial" /\ a.missingCount > 0)

(* analysis.filter((a) => a.availability === value).                       *)
FilterByAvailability(reports, value) ==
  SelectSeq(reports, LAMBDA a : a.availability = value)

(* availabilityOrder, line 185.                                            *)
AvailabilityOrder(availability) ==
  CASE availability = "full" -> 3
    [] availability = "partial" -> 2
    [] availability = "none" -> 1

(* The comparator with the percentages subtracted the other way round.     *)
CompareAscendingPercentage(a, b) ==
  LET aDiff == AvailabilityOrder(a.availability)
      bDiff == AvailabilityOrder(b.availability)
  IN  IF aDiff # bDiff THEN bDiff - aDiff
      ELSE a.percentageAvailable - b.percentageAvailable

(* The comparator of lines 184-194.                                        *)
Compare(a, b) ==
  LET aDiff == AvailabilityOrder(a.availability)
      bDiff == AvailabilityOrder(b.availability)
  IN  IF aDiff # bDiff THEN bDiff - aDiff
      ELSE b.percentageAvailable - a.percentageAvailable

(* An unstable insertion: x also moves in front of the reports that        *)
(* compare equal to it.                                                    *)
RECURSIVE InsertSortedUnstable(_, _, _)
InsertSortedUnstable(sorted, x, k) ==
  IF k = 0 \/ Compare(sorted[k], x) < 0
  THEN SubSeq(sorted, 1, k) \o <<x>> \o SubSeq(sorted, k + 1, Len(sorted))
  ELSE InsertSortedUnstable(sorted, x, k - 1)

(* Array.prototype.sort is stable (ECMAScript 2019; the image is Node 24): *)
(* an element moves in front of another only when the comparator says it   *)
(* sorts strictly before it.  Insertion of x into a sorted sequence.       *)
RECURSIVE InsertSorted(_, _, _)
InsertSorted(sorted, x, k) ==
  IF k = 0 \/ Compare(sorted[k], x) <= 0
  THEN SubSeq(sorted, 1, k) \o <<x>> \o SubSeq(sorted, k + 1, Len(sorted))
  ELSE InsertSorted(sorted, x, k - 1)

RECURSIVE SortFrom(_, _, _)
SortFrom(reports, i, sorted) ==
  IF i > Len(reports) THEN sorted
  ELSE SortFrom(reports, i + 1, InsertSorted(sorted, reports[i], Len(sorted)))

Sort(reports) == SortFrom(reports, 1, <<>>)

-----------------------------------------------------------------------------
(* The input families.                                                     *)

Ingredients(names, n) == {[i \in 1..Len(s) |-> [name |-> s[i]]] : s \in SeqsUpTo(names, n)}

Start(inv, rs) ==
  /\ inventory = inv
  /\ recipes = rs
  /\ analysis = <<>>
  /\ fullyMakeable = <<>>
  /\ partiallyMakeable = <<>>
  /\ notMakeable = <<>>
  /\ sortedByMakeability = <<>>
  /\ pc = "map"
  /\ db = [users |-> <<>>, adminAuditLogs |-> <<>>]
  /\ procs = <<>>
  /\ clock = 0

(* One recipe and a small inventory over the names.                        *)
Init ==
  \E inv \in Ingredients(Names, MaxInventory),
     ings \in Ingredients(Names, MaxIngredients) :
       Start(inv, <<[_id |-> 1, ingredients |-> ings]>>)

Stocked == Str(<<"a">>)

Unstocked == Str(<<"a", "a">>)

(* A recipe of total ingredients: missing unstocked lines, then stocked    *)
(* ones.                                                                   *)
RecipeOf(id, total, missing) ==
  [_id |-> id,
   ingredients |-> [i \in 1..total |->
                      [name |-> IF i <= missing THEN Unstocked ELSE Stocked]]]

Shapes(n) == {sh \in (0..n) \X (0..n) : sh[2] <= sh[1]}

(* A catalog of recipes over a stocked and an unstocked name.              *)
InitRank ==
  \E n \in 0..MaxRankRecipes :
    \E shape \in [1..n -> Shapes(MaxRankIngredients)] :
      Start(<<[name |-> Str(<<" ", "A">>)]>>,
            [i \in 1..n |-> RecipeOf(i, shape[i][1], shape[i][2])])

(* One long recipe.                                                        *)
InitLarge ==
  \E shape \in Shapes(MaxLargeIngredients) :
    Start(<<[name |-> Stocked]>>, <<RecipeOf(1, shape[1], shape[2])>>)

-----------------------------------------------------------------------------
(* The steps of generateReport.                                            *)

(* A map that stores each result at the front of its output.               *)
MapNextUnshift(reports, rs, inv) ==
  <<BuildReport(rs[Len(reports) + 1], inv)>> \o reports

(* Array.prototype.map, line 89: the callback's result for the next        *)
(* element of rs is stored at that element's index of the output.          *)
MapNext(reports, rs, inv) ==
  Append(reports, BuildReport(rs[Len(reports) + 1], inv))

(* Sorting the array of reports itself: the receiver is the input.         *)
SortedCopyInPlace(reports) ==
  [receiver |-> Sort(reports), sorted |-> Sort(reports)]

(* [...analysis].sort(compare), lines 184-194: sort reorders its receiver  *)
(* in place and returns it; the receiver is the array the spread made, so  *)
(* the array that was spread keeps its elements.  The value of the         *)
(* expression and the array that was spread after it.                      *)
SortedCopy(reports) ==
  [receiver |-> reports, sorted |-> Sort(reports)]

(* The map callback for the next recipe, line 90.                          *)
AnalyzeRecipe ==
  /\ pc = "map"
  /\ Len(analysis) < Len(recipes)
  /\ analysis' = MapNext(analysis, recipes, inventory)
  /\ UNCHANGED <<inventory, recipes, fullyMakeable, partiallyMakeable,
                 notMakeable, sortedByMakeability, pc>>
  /\ UNCHANGED adminVars

(* Lines 147-149, once map has returned.                                   *)
Summarize ==
  /\ pc = "map"
  /\ Len(analysis) = Len(recipes)
  /\ fullyMakeable' = FilterByAvailability(analysis, "full")
  /\ partiallyMakeable' = FilterByAvailability(analysis, "partial")
  /\ notMakeable' = FilterByAvailability(analysis, "none")
  /\ pc' = "sort"
  /\ UNCHANGED <<inventory, recipes, analysis, sortedByMakeability>>
  /\ UNCHANGED adminVars

(* Lines 184-194.                                                          *)
SortByMakeability ==
  /\ pc = "sort"
  /\ sortedByMakeability' = SortedCopy(analysis).sorted
  /\ analysis' = SortedCopy(analysis).receiver
  /\ pc' = "done"
  /\ UNCHANGED <<inventory, recipes, fullyMakeable, partiallyMakeable,
                 notMakeable>>
  /\ UNCHANGED adminVars

Next == AnalyzeRecipe \/ Summarize \/ SortByMakeability

Spec == Init /\ [][Next]_vars

SpecRank == InitRank /\ [][Next]_vars

SpecLarge == InitLarge /\ [][Next]_vars

-----------------------------------------------------------------------------
(* The database of manage-site-admin.js.                                   *)

Usernames == {"admin", "guest"}

(* bcrypt.genSalt draws a random salt.                                     *)
Salts == {"salt1", "salt2"}

(* What is typed at a password prompt.                                     *)
TypedPasswords == {"", "hunter2"}

RootUid == 0

NodejsUid == 1001

(* process.getuid: absent on some platforms, and otherwise a function      *)
(* returning the uid; a sequence with the uid, or the empty sequence.      *)
Platforms == {[getuid |-> <<RootUid>>], [getuid |-> <<NodejsUid>>], [getuid |-> <<>>]}

(* hashPassword, lines 86-89: the bcrypt hash of the password under a      *)
(* fresh salt.                                                             *)
HashOf(password, salt) ==
  [algorithm |-> "bcrypt", rounds |-> 12, salt |-> salt, of |-> password]

(* Users that are in the collection before any command runs: an admin     *)
(* and a user of the application that no command line names.               *)
SeedUsers ==
  <<[_id |-> 1, username |-> "admin", email |-> "admin@example.com",
     passwordHash |-> HashOf("seed", "salt1"), familyId |-> 1,
     roles |-> <<"admin">>,
     permissions |-> [isAdmin |-> TRUE, isSiteAdmin |-> TRUE, canView |-> TRUE,
                      canAdd |-> TRUE, canEdit |-> TRUE, canDelete |-> TRUE],
     createdAt |-> 0, updatedAt |-> 0],
    [_id |-> 2, username |-> "bartender", email |-> "bartender@example.com",
     passwordHash |-> HashOf("seed", "salt2"), familyId |-> 2,
     roles |-> <<"user">>,
     permissions |-> [isAdmin |-> FALSE, isSiteAdmin |-> FALSE, canView |-> TRUE,
                      canAdd |-> FALSE, canEdit |-> FALSE, canDelete |-> FALSE],
     createdAt |-> 0, updatedAt |-> 0]>>

(* collection.findOne({ username }): the position of the first document    *)
(* with that username, 0 for null.                                         *)
FindOne(coll, username) ==
  IF \E k \in 1..Len(coll) : coll[k].username = username
  THEN CHOOSE k \in 1..Len(coll) :
         /\ coll[k].username = username
         /\ \A j \in 1..(k - 1) : coll[j].username # username
  ELSE 0

(* collection.insertOne(doc): the document is stored under a fresh _id;    *)
(* the collection has no unique index, none is created by the script.      *)
InsertOne(coll, doc) ==
  Append(coll, [f \in DOMAIN doc \cup {"_id"} |->
                  IF f = "_id" THEN Len(coll) + 1 ELSE doc[f]])

(* A $set that also refreshes createdAt.                                   *)
SetFieldsAndCreatedAt(doc, set) ==
  [f \in DOMAIN doc \cup DOMAIN set |->
     IF f \in DOMAIN set THEN set[f]
     ELSE IF f = "createdAt" THEN set.updatedAt ELSE doc[f]]

(* { $set: set }: the fields of set replace the document's, the other      *)
(* fields stay.                                                            *)
SetFields(doc, set) ==
  [f \in DOMAIN doc \cup DOMAIN set |->
     IF f \in DOMAIN set THEN set[f] ELSE doc[f]]

(* collection.updateOne({ username }, { $set: set }): the first matching   *)
(* document is updated; modifiedCount counts the documents that changed.   *)
UpdateOne(coll, username, set) ==
  LET k == FindOne(coll, username)
  IN  IF k = 0 THEN [coll |-> coll, modifiedCount |-> 0]
      ELSE [coll |-> [coll EXCEPT ![k] = SetFields(coll[k], set)],
            modifiedCount |-> IF SetFields(coll[k], set) = coll[k] THEN 0 ELSE 1]

(* The user document of createAdmin, lines 105-121.                        *)
NewAdmin(username, email, passwordHash, familyId, now) ==
  [username |-> username, email |-> email, passwordHash |-> passwordHash,
   familyId |-> familyId, roles |-> <<"admin">>,
   permissions |-> [isAdmin |-> TRUE, isSiteAdmin |-> TRUE, canView |-> TRUE,
                    canAdd |-> TRUE, canEdit |-> TRUE, canDelete |-> TRUE],
   createdAt |-> now, updatedAt |-> now]

(* A root check that lets every caller through.                            *)
RootCheckSkipped(process) == TRUE

(* requireRoot, line 208: the check fails when process.getuid exists and   *)
(* returns something other than 0.                                         *)
RootCheckPasses(process) ==
  ~(process.getuid # <<>> /\ process.getuid[1] # RootUid)

(* promptPasswordTwice, lines 49-55: resolves with pw1 when the entries    *)
(* are the same and not empty.                                             *)
PromptResolves(pw1, pw2) ==
  IF pw1 # pw2 THEN FALSE
  ELSE IF pw1 = "" THEN FALSE
  ELSE TRUE

-----------------------------------------------------------------------------
(* The command lines, lines 214-247.                                       *)

Argv(command, username) ==
  [command |-> command, username |-> username,
   email |-> IF command = "create" THEN username \o "@example.com" ELSE "",
   password |-> IF command = "reset-password" THEN "" ELSE "NewPassword456!"]

Invocations ==
  {[argv |-> Argv(c, u), process |-> [getuid |-> <<NodejsUid>>]] :
     c \in {"create", "update-password"}, u \in Usernames}
  \cup {[argv |-> Argv("reset-password", u), process |-> pf] :
          u \in Usernames, pf \in Platforms}

(* A process at the start of its command's handler.                        *)
Launch(inv) ==
  [argv |-> inv.argv, process |-> inv.process,
   pc |-> IF inv.argv.command = "reset-password" THEN "requireRoot" ELSE "connect",
   pw1 |-> "", pw2 |-> "", password |-> inv.argv.password,
   existing |-> FALSE, passwordHash |-> HashOf("", "salt1"), hashed |-> FALSE,
   modifiedCount |-> 0, console |-> "", exitCode |-> 0]

(* process.exit(1) after console.error: the process is gone and its       *)
(* locals with it; its command line, its output and its status remain.     *)
ExitWithError(p) ==
  [Launch([argv |-> p.argv, process |-> p.process]) EXCEPT
     !.pc = "exited", !.console = "error", !.exitCode = 1]

(* The handler returns after its success message and the process ends      *)
(* with status 0.                                                          *)
ExitWithSuccess(p) ==
  [Launch([argv |-> p.argv, process |-> p.process]) EXCEPT
     !.pc = "exited", !.console = "success", !.exitCode = 0]

InitAdmin ==
  /\ inventory = <<>>
  /\ recipes = <<>>
  /\ analysis = <<>>
  /\ fullyMakeable = <<>>
  /\ partiallyMakeable = <<>>
  /\ notMakeable = <<>>
  /\ sortedByMakeability = <<>>
  /\ pc = "idle"
  /\ \E k \in 0..Len(SeedUsers) :
       db = [users |-> SubSeq(SeedUsers, 1, k), adminAuditLogs |-> <<>>]
  /\ procs = <<>>
  /\ clock = 1

(* yargs dispatches a command line to its handler.                         *)
Invoke ==
  /\ Len(procs) < MaxProcs
  /\ \E inv \in Invocations : procs' = Append(procs, Launch(inv))
  /\ UNCHANGED <<db, clock>>
  /\ UNCHANGED reportVars

(* resetPassword, line 137.                                                *)
RequireRoot ==
  \E i \in 1..Len(procs) :
    /\ procs[i].pc = "requireRoot"
    /\ procs' = [procs EXCEPT ![i] =
                   IF RootCheckPasses(procs[i].process)
                   THEN [procs[i] EXCEPT !.pc = "question1"]
                   ELSE ExitWithError(procs[i])]
    /\ UNCHANGED <<db, clock>>
    /\ UNCHANGED reportVars

(* The first prompt is answered, line 42.                                  *)
PromptFirst ==
  \E i \in 1..Len(procs) :
    /\ procs[i].pc = "question1"
    /\ \E pw1 \in TypedPasswords :
         procs' = [procs EXCEPT ![i] = [procs[i] EXCEPT !.pw1 = pw1, !.pc = "question2"]]
    /\ UNCHANGED <<db, clock>>
    /\ UNCHANGED reportVars

(* The second prompt is answered, lines 45-55, and resetPassword goes on   *)
(* at lines 139-144.                                                       *)
PromptSecond ==
  \E i \in 1..Len(procs) :
    /\ procs[i].pc = "question2"
    /\ \E pw2 \in TypedPasswords :
         procs' = [procs EXCEPT ![i] =
                     IF PromptResolves(procs[i].pw1, pw2)
                     THEN [procs[i] EXCEPT !.pw2 = pw2, !.password = procs[i].pw1,
                                           !.pc = "connect"]
                     ELSE ExitWithError([procs[i] EXCEPT !.pw2 = pw2])]
    /\ UNCHANGED <<db, clock>>
    /\ UNCHANGED reportVars

(* client.connect() resolves, or rejects and the catch block exits.        *)
Connect ==
  \E i \in 1..Len(procs) :
    /\ procs[i].pc = "connect"
    /\ \E connected \in BOOLEAN :
         procs' = [procs EXCEPT ![i] =
                     IF connected THEN [procs[i] EXCEPT !.pc = "findOne"]
                     ELSE ExitWithError(procs[i])]
    /\ UNCHANGED <<db, clock>>
    /\ UNCHANGED reportVars

(* users.findOne({ username }) and the test of its result: lines 98-102,   *)
(* 150-154 and 176-180.                                                    *)
FindUser ==
  \E i \in 1..Len(procs) :
    /\ procs[i].pc = "findOne"
    /\ LET found == FindOne(db.users, procs[i].argv.username) # 0
           p == [procs[i] EXCEPT !.existing = found]
       IN  procs' = [procs EXCEPT ![i] =
                       IF (p.argv.command = "create") = found
                       THEN ExitWithError(p)
                       ELSE [p EXCEPT !.pc = "hashPassword"]]
    /\ UNCHANGED <<db, clock>>
    /\ UNCHANGED reportVars

(* hashPassword(password), lines 104, 155 and 182.                         *)
HashPassword ==
  \E i \in 1..Len(procs) :
    /\ procs[i].pc = "hashPassword"
    /\ \E salt \in Salts :
         procs' = [procs EXCEPT ![i] =
                     [procs[i] EXCEPT !.passwordHash = HashOf(procs[i].password, salt),
                                      !.hashed = TRUE,
                                      !.pc = IF procs[i].argv.command = "create"
                                             THEN "insertOne" ELSE "updateOne"]]
    /\ UNCHANGED <<db, clock>>
    /\ UNCHANGED reportVars

(* createAdmin, lines 105-127.                                             *)
InsertAdmin ==
  \E i \in 1..Len(procs) :
    /\ procs[i].pc = "insertOne"
    /\ procs[i].argv.command = "create"
    /\ db' = [db EXCEPT !.users =
                InsertOne(db.users,
                          NewAdmin(procs[i].argv.username, procs[i].argv.email,
                                   procs[i].passwordHash, Len(db.users) + 1, clock))]
    /\ clock' = clock + 1
    /\ procs' = [procs EXCEPT ![i] = ExitWithSuccess(procs[i])]
    /\ UNCHANGED reportVars

(* updatePassword, lines 183-198.                                          *)
UpdateStoredPassword ==
  \E i \in 1..Len(procs) :
    /\ procs[i].pc = "updateOne"
    /\ procs[i].argv.command = "update-password"
    /\ LET result == UpdateOne(db.users, procs[i].argv.username,
                               [passwordHash |-> procs[i].passwordHash,
                                updatedAt |-> clock])
           p == [procs[i] EXCEPT !.modifiedCount = result.modifiedCount]
       IN  /\ db' = [db EXCEPT !.users = result.coll]
           /\ procs' = [procs EXCEPT ![i] =
                          IF result.modifiedCount = 1
                          THEN ExitWithSuccess(p) ELSE ExitWithError(p)]
    /\ clock' = clock + 1
    /\ UNCHANGED reportVars

(* resetPassword, lines 156-160.                                           *)
ResetStoredPassword ==
  \E i \in 1..Len(procs) :
    /\ procs[i].pc = "updateOne"
    /\ procs[i].argv.command = "reset-password"
    /\ LET result == UpdateOne(db.users, procs[i].argv.username,
                               [passwordHash |-> procs[i].passwordHash,
                                updatedAt |-> clock])
       IN  /\ db' = [db EXCEPT !.users = result.coll]
           /\ procs' = [procs EXCEPT ![i] =
                          ExitWithSuccess([procs[i] EXCEPT
                                             !.modifiedCount = result.modifiedCount])]
    /\ clock' = clock + 1
    /\ UNCHANGED reportVars

NextAdmin ==
  \/ Invoke
  \/ RequireRoot
  \/ PromptFirst
  \/ PromptSecond
  \/ Connect
  \/ FindUser
  \/ HashPassword
  \/ InsertAdmin
  \/ UpdateStoredPassword
  \/ ResetStoredPassword

SpecAdmin == InitAdmin /\ [][NextAdmin]_vars

-----------------------------------------------------------------------------
(* Properties of the reports.                                              *)

Range(s) == {s[i] : i \in DOMAIN s}

Reports == Range(analysis)

IngredientNames(recipe) ==
  [i \in 1..Len(recipe.ingredients) |-> recipe.ingredients[i].name]

(* Some inventory item's name matches the name, as the find callback sees it. *)
Matched(name) ==
  \E j \in 1..Len(inventory) :
    StrictEquals(Normalize(inventory[j].name), Normalize(name))

(* C1: every report is classified 'full' exactly when nothing is missing   *)
(* and the recipe has at least one ingredient, 'none' exactly when every   *)
(* ingredient is missing, and 'partial' otherwise; a recipe without        *)
(* ingredients is 'none' with counts and percentage 0.                     *)
C1_ClassificationRule ==
  \A r \in Reports :
    /\ r.availability \in {"full", "partial", "none"}
    /\ r.availability = "full" <=> (r.missingCount = 0 /\ r.totalIngredients > 0)
    /\ r.availability = "none" <=> r.missingCount = r.totalIngredients
    /\ r.totalIngredients = 0 =>
         /\ r.availability = "none"
         /\ r.missingCount = 0
         /\ r.percentageAvailable = 0

(* C2: a name that is undefined matches nothing: no undefined ingredient   *)
(* name is reported available, and every available ingredient is matched   *)
(* by an inventory item whose own name is defined.                         *)
C2_UndefinedNeverMatches ==
  \A r \in Reports :
    \A n \in Range(r.availableIngredients) :
      /\ n.type # "undefined"
      /\ \E j \in 1..Len(inventory) :
           /\ inventory[j].name.type # "undefined"
           /\ StrictEquals(Normalize(inventory[j].name), Normalize(n))

(* C3, as stated: the percentage lies in 0..100 and, for a recipe with     *)
(* ingredients, is 100 exactly when nothing is missing.                    *)
C3_HundredIffNothingMissing ==
  \A r \in Reports :
    /\ r.percentageAvailable \in 0..100
    /\ r.totalIngredients > 0 =>
         (r.percentageAvailable = 100 <=> r.missingCount = 0)

(* C3, amended: the percentage lies in 0..100; for a recipe with           *)
(* ingredients nothing missing gives 100, and 100 means nothing is         *)
(* missing as long as the recipe has fewer than 200 ingredients.           *)
C3_HundredIffNothingMissingBelow200 ==
  \A r \in Reports :
    /\ r.percentageAvailable \in 0..100
    /\ (r.totalIngredients > 0 /\ r.missingCount = 0) => r.percentageAvailable = 100
    /\ (r.totalIngredients \in 1..199 /\ r.percentageAvailable = 100) =>
         r.missingCount = 0

C3_Witness ==
  \E r \in Reports :
    r.totalIngredients = 199 /\ r.missingCount = 1 /\ r.percentageAvailable = 99

(* C4: the counts of a report agree with its lists: missingCount is the    *)
(* length of missingIngredients, totalIngredients the length of the        *)
(* recipe's ingredient list, missingCount plus the number of available     *)
(* ingredients is totalIngredients, and 0 <= missingCount <= total.        *)
C4_CountsAddUp ==
  \A r \in Reports :
    /\ r.missingCount + Len(r.availableIngredients) = r.totalIngredients
    /\ r.missingCount = Len(r.missingIngredients)
    /\ r.totalIngredients = Len(r.recipe.ingredients)
    /\ 0 <= r.missingCount
    /\ r.missingCount <= r.totalIngredients

C4_Witness ==
  \E r \in Reports :
    /\ r.totalIngredients = MaxIngredients
    /\ r.missingCount > 0
    /\ Len(r.availableIngredients) > 0

(* C7: an ingredient with a name is reported available exactly when some   *)
(* inventory item has a name that equals it after trimming and             *)
(* lower-casing both, and is reported missing otherwise.                   *)
TrimmedLower(name) == ToLowerCase(Trim(name.chars))

SameNameModuloCaseAndSpace(n) ==
  \E j \in 1..Len(inventory) :
    /\ inventory[j].name.type = "string"
    /\ TrimmedLower(inventory[j].name) = TrimmedLower(n)

C7_MatchIsTrimmedLowerEquality ==
  \A r \in Reports :
    \A n \in Range(IngredientNames(r.recipe)) :
      n.type = "string" =>
        /\ n \in Range(r.availableIngredients) <=> SameNameModuloCaseAndSpace(n)
        /\ n \in Range(r.missingIngredients) <=> ~SameNameModuloCaseAndSpace(n)

(* An available ingredient whose stocked spelling differs from the         *)
(* recipe's both in case and in surrounding white space.                   *)
C7_Witness ==
  \E r \in Reports :
    \E n \in Range(r.availableIngredients) :
      \E j \in 1..Len(inventory) :
        /\ n.type = "string"
        /\ inventory[j].name.type = "string"
        /\ ToLowerCase(inventory[j].name.chars) # ToLowerCase(n.chars)
        /\ Trim(inventory[j].name.chars) # Trim(n.chars)
        /\ TrimmedLower(inventory[j].name) = TrimmedLower(n)

(* C10: missingIngredients is the recipe's ingredient names that are       *)
(* unmatched in the inventory and availableIngredients those that are      *)
(* matched, each in the recipe's order, so that every ingredient line      *)
(* contributes its name to exactly one of the two.                         *)
C10_OrderedPartition ==
  \A r \in Reports :
    /\ r.missingIngredients =
         SelectSeq(IngredientNames(r.recipe), LAMBDA n : ~Matched(n))
    /\ r.availableIngredients =
         SelectSeq(IngredientNames(r.recipe), LAMBDA n : Matched(n))

C10_Witness ==
  \E r \in Reports :
    /\ Len(r.missingIngredients) = 2
    /\ r.missingIngredients[1] # r.missingIngredients[2]

-----------------------------------------------------------------------------
(* Properties of the summary and of the ranking.                           *)

Summarized == pc \in {"sort", "done"}

Ranked == pc = "done"

SameKeys(a, b) ==
  /\ a.availability = b.availability
  /\ a.percentageAvailable = b.percentageAvailable

(* Where a report stands in the ranked output; the reports of one run      *)
(* differ in their recipe.                                                 *)
Position(r) == CHOOSE k \in 1..Len(sortedByMakeability) : sortedByMakeability[k] = r

(* C5: the ranking is stable: two reports with the same availability and   *)
(* the same percentage stand in the ranked output in their input order.    *)
C5_RankIsStable ==
  Ranked =>
    \A i, j \in 1..Len(analysis) :
      (i < j /\ SameKeys(analysis[i], analysis[j])) =>
        Position(analysis[i]) < Position(analysis[j])

(* Reports with equal keys on both sides of one that sorts before them.    *)
C5_Witness ==
  /\ Ranked
  /\ \E i, j, k \in 1..Len(analysis) :
       /\ i < j
       /\ j < k
       /\ SameKeys(analysis[i], analysis[j])
       /\ analysis[i] # analysis[j]
       /\ Compare(analysis[j], analysis[k]) > 0

(* C6: the ranked output is a permutation of the reports in which every    *)
(* report is followed by one of lower availability rank, or of the same    *)
(* rank and a percentage that is not higher.                               *)
C6_RankedDescending ==
  Ranked =>
    /\ Len(sortedByMakeability) = Len(analysis)
    /\ Range(sortedByMakeability) = Range(analysis)
    /\ \A k \in 1..(Len(sortedByMakeability) - 1) :
         LET x == sortedByMakeability[k]
             y == sortedByMakeability[k + 1]
         IN  \/ AvailabilityOrder(x.availability) > AvailabilityOrder(y.availability)
             \/ /\ AvailabilityOrder(x.availability) = AvailabilityOrder(y.availability)
                /\ x.percentageAvailable >= y.percentageAvailable

(* A ranking that had to move reports on both keys.                        *)
C6_Witness ==
  /\ Ranked
  /\ sortedByMakeability # analysis
  /\ \E k \in 1..(Len(sortedByMakeability) - 1) :
       /\ sortedByMakeability[k].availability = "partial"
       /\ sortedByMakeability[k + 1].availability = "partial"
       /\ sortedByMakeability[k].percentageAvailable >
            sortedByMakeability[k + 1].percentageAvailable
       /\ \E i, j \in 1..Len(analysis) :
            /\ i < j
            /\ analysis[i] = sortedByMakeability[k + 1]
            /\ analysis[j] = sortedByMakeability[k]
  /\ \E i, j \in 1..Len(analysis) :
       /\ i < j
       /\ AvailabilityOrder(analysis[i].availability) <
            AvailabilityOrder(analysis[j].availability)

(* C8: the three summary lists partition the reports: every report is in   *)
(* exactly one of them and their lengths add up to the number of reports.  *)
C8_SummaryPartitions ==
  Summarized =>
    /\ Len(fullyMakeable) + Len(partiallyMakeable) + Len(notMakeable) = Len(analysis)
    /\ \A r \in Reports :
         Cardinality({k \in 1..3 :
            r \in Range(<<fullyMakeable, partiallyMakeable, notMakeable>>[k])}) = 1

C8_Witness ==
  /\ Summarized
  /\ fullyMakeable # <<>>
  /\ partiallyMakeable # <<>>
  /\ notMakeable # <<>>

(* Round-half-up of 100 * (total - missing) / total in exact arithmetic.   *)
RoundHalfUpExact(total, missing) ==
  (200 * (total - missing) + total) \div (2 * total)

(* 100 * (total - missing) / total lies half way between two integers.     *)
HalfWay(total, missing) ==
  /\ (200 * (total - missing)) % total = 0
  /\ ((200 * (total - missing)) \div total) % 2 = 1

(* C9, as stated: the percentage is the exact ratio times 100, rounded     *)
(* half up, and 0 for a recipe without ingredients.                        *)
C9_PercentageIsRoundHalfUp ==
  \A r \in Reports :
    r.percentageAvailable =
      IF r.totalIngredients > 0
      THEN RoundHalfUpExact(r.totalIngredients, r.missingCount)
      ELSE 0

(* C9, amended: the percentage is 0 for a recipe without ingredients and   *)
(* otherwise the exact ratio times 100 rounded to the nearest integer;     *)
(* when that value lies exactly half way between two integers the double   *)
(* arithmetic yields either of the two.                                    *)
C9_PercentageIsNearestInteger ==
  \A r \in Reports :
    LET t == r.totalIngredients
        m == r.missingCount
    IN  IF t = 0 THEN r.percentageAvailable = 0
        ELSE IF HalfWay(t, m)
             THEN r.percentageAvailable \in
                    {RoundHalfUpExact(t, m) - 1, RoundHalfUpExact(t, m)}
             ELSE r.percentageAvailable = RoundHalfUpExact(t, m)

(* 23 of 40 ingredients: 57.5 in exact arithmetic, reported as 57.         *)
C9_Witness ==
  \E r \in Reports :
    /\ r.totalIngredients = 40
    /\ r.missingCount = 17
    /\ r.percentageAvailable = 57

-----------------------------------------------------------------------------
(* Properties of the analysis as a whole.                                  *)

(* The fields of a report other than the recipe it is about.               *)
Findings(r) ==
  [availability |-> r.availability,
   missingIngredients |-> r.missingIngredients,
   availableIngredients |-> r.availableIngredients,
   missingCount |-> r.missingCount,
   totalIngredients |-> r.totalIngredients,
   percentageAvailable |-> r.percentageAvailable]

(* C11: analyze returns one report per recipe in the recipes' order: the   *)
(* i-th report is about the i-th recipe and is the report of that recipe   *)
(* against the inventory, whatever stands around it in the catalog, so     *)
(* that recipes with the same ingredient lines get the same findings.      *)
C11_OneReportPerRecipeInOrder ==
  /\ Len(analysis) <= Len(recipes)
  /\ Summarized => Len(analysis) = Len(recipes)
  /\ \A i \in 1..Len(analysis) :
       /\ analysis[i].recipe = recipes[i]
       /\ analysis[i] = BuildReport(recipes[i], inventory)
  /\ \A i, j \in 1..Len(analysis) :
       analysis[i].recipe.ingredients = analysis[j].recipe.ingredients =>
         Findings(analysis[i]) = Findings(analysis[j])

(* A catalog whose first and last recipes have the same lines and whose    *)
(* middle recipe is classified differently.                                *)
C11_Witness ==
  /\ Summarized
  /\ Len(analysis) = 3
  /\ analysis[1].recipe.ingredients = analysis[3].recipe.ingredients
  /\ analysis[1].availability = "partial"
  /\ analysis[2].availability = "none"
  /\ analysis[2].totalIngredients > 0

(* C12: no step changes the inventory or the recipes, and ranking leaves   *)
(* the sequence of reports it is applied to as it was.                     *)
C12_InputsNotMutated ==
  [][/\ inventory' = inventory
     /\ recipes' = recipes
     /\ pc = "sort" => analysis' = analysis]_vars

(* A ranking whose output order differs from the order of its input,       *)
(* which is still the recipes' order.                                      *)
C12_Witness ==
  /\ Ranked
  /\ sortedByMakeability # analysis
  /\ Len(analysis) = Len(recipes)
  /\ \A i \in 1..Len(analysis) : analysis[i].recipe = recipes[i]

-----------------------------------------------------------------------------
(* Properties of the admin commands.                                       *)

(* The process that takes the step, before and after it.                   *)
Steps(i, command) ==
  /\ procs[i].argv.command = command
  /\ procs'[i] # procs[i]

(* The documents of the users collection that a step changes.              *)
ChangedUsers ==
  {k \in 1..Len(db.users) : db'.users[k] # db.users[k]}

(* The step changes the password hash and the update time of one user      *)
(* with the given username, and nothing else in the collection.            *)
OnlyPasswordOf(username) ==
  /\ Len(db'.users) = Len(db.users)
  /\ \E k \in 1..Len(db.users) :
       /\ db.users[k].username = username
       /\ db'.users = [db.users EXCEPT ![k] =
                         [db.users[k] EXCEPT
                            !.passwordHash = db'.users[k].passwordHash,
                            !.updatedAt = db'.users[k].updatedAt]]

(* C13: every step of a command that changes the users collection also     *)
(* adds an entry to the audit log collection of the database.              *)
C13_EveryChangeIsAudited ==
  [][db'.users # db.users =>
       /\ Len(db'.adminAuditLogs) = Len(db.adminAuditLogs) + 1
       /\ SubSeq(db'.adminAuditLogs, 1, Len(db.adminAuditLogs)) = db.adminAuditLogs]_vars

(* What C14 says of one step of a reset-password process, for a given      *)
(* meaning of "runs with root privileges".                                 *)
ResetGuarded(i, privileged) ==
  LET p == procs[i]
      q == procs'[i]
      entered == p.pw1 = p.pw2 /\ p.pw1 # ""
  IN  Steps(i, "reset-password") =>
        /\ p.pc = "requireRoot" =>
             /\ db' = db
             /\ IF privileged THEN q.pc = "question1"
                ELSE q.pc = "exited" /\ q.exitCode = 1
        /\ p.pc # "requireRoot" => privileged
        /\ p.pc = "question2" =>
             /\ db' = db
             /\ IF q.pw1 = q.pw2 /\ q.pw1 # ""
                THEN q.pc = "connect" /\ q.password = q.pw1
                ELSE q.pc = "exited" /\ q.exitCode = 1
        /\ p.pc \in {"connect", "findOne", "hashPassword", "updateOne"} => entered
        /\ (p.pc = "findOne" /\ FindOne(db.users, p.argv.username) = 0) =>
             q.pc = "exited" /\ q.exitCode = 1
        /\ p.pc # "updateOne" => db' = db
        /\ (q.pc = "exited" /\ p.pc # "updateOne") => q.exitCode = 1
        /\ db'.users # db.users =>
             /\ privileged
             /\ entered
             /\ OnlyPasswordOf(p.argv.username)
             /\ \E k \in ChangedUsers : db'.users[k].passwordHash.of = p.pw1

C15_UsernamesAreUnique ==
  \A j, k \in 1..Len(db.users) :
    j # k => db.users[j].username # db.users[k].username

(* C16: update-password for a username that is not in the collection       *)
(* ends with status 1 and the collection as it was; otherwise a step of    *)
(* update-password changes at most the password hash and the update time   *)
(* of one user with that username, success is reported only by a step      *)
(* that modified exactly one document, and every other end has status 1.   *)
C16_UpdateOnlyThePassword ==
  [][\A i \in 1..Len(procs) :
       LET p == procs[i]
           q == procs'[i]
       IN  Steps(i, "update-password") =>
             /\ (p.pc = "findOne" /\ FindOne(db.users, p.argv.username) = 0) =>
                  q.pc = "exited" /\ q.exitCode = 1
             /\ p.pc # "updateOne" => db' = db
             /\ db'.adminAuditLogs = db.adminAuditLogs
             /\ db'.users # db.users => OnlyPasswordOf(p.argv.username)
             /\ q.console = "success" =>
                  /\ Cardinality(ChangedUsers) = 1
                  /\ q.exitCode = 0
             /\ (q.pc = "exited" /\ q.console # "success") => q.exitCode = 1]_vars

(* An update has succeeded next to a user it left alone, and an update     *)
(* for a missing username has failed.                                      *)
C16_Witness ==
  /\ \E i \in 1..Len(procs) :
       /\ procs[i].argv.command = "update-password"
       /\ procs[i].console = "success"
       /\ \E j, k \in 1..Len(db.users) :
            /\ db.users[k].username = procs[i].argv.username
            /\ db.users[k].passwordHash.of = procs[i].argv.password
            /\ db.users[k].updatedAt > db.users[k].createdAt
            /\ db.users[j].username # procs[i].argv.username
  /\ \E i \in 1..Len(procs) :
       /\ procs[i].argv.command = "update-password"
       /\ procs[i].console = "error"
       /\ FindOne(db.users, procs[i].argv.username) = 0

====
